---- MODULE Spec2Model ----
(***************************************************************************)
(* Model of the analysis helpers of src/utils: IQR outlier removal         *)
(* (cleaning.py), the Shapiro-Wilk normality table (cleaning.py), the      *)
(* correlation table and the group-comparison tests (hypothesis.py) and    *)
(* the eta correlation ratio (eda.py).                                     *)
(*                                                                         *)
(* A caller owns a table `data` and calls the helpers on it.  A cell is    *)
(* <<v>> when it holds v and <<>> (Missing) when it is NaN.  Arithmetic is *)
(* exact: quantiles, bounds and sums of squares are kept as integers       *)
(* scaled by a common denominator, so floating-point rounding is not       *)
(* modelled.  The numerics of scipy (the p-value of a test) are inputs of  *)
(* the model; what the helpers do with them is modelled from the code.     *)
(***************************************************************************)
EXTENDS Integers, Sequences, FiniteSets, TLC

VARIABLES data, stat, call, ret, out

vars == <<data, stat, call, ret, out>>

(***************************************************************************)
(* Bounds of the model.                                                    *)
(***************************************************************************)
MaxRows == 3
MaxCols == 2

Missing == <<>>

\* The values a numeric cell may hold, and the labels of the grouping column.
Vals == {0, 10}
Grps == {1, 2}

Cell(S) == {Missing} \cup {<<x>> : x \in S}

\* k as a fraction <<numerator, denominator>>; 3/2 is the default of the code.
DefaultK == <<3, 2>>
Ks == {<<0, 1>>, <<1, 2>>, DefaultK}

\* The columns of the caller's table; "grp" holds labels (dtype object).
Columns == {"val", "grp", "tag"}
NumericColumns == {"val", "tag"}

(***************************************************************************)
(* Tables.  A row carries its index label idx (pandas keeps the labels     *)
(* through a filter), the target column val, the grouping column grp and   *)
(* one more column tag that stands for all other columns.                  *)
(***************************************************************************)
Row(i, v, g, t) == [idx |-> i, val |-> v, grp |-> g, tag |-> t]

RECURSIVE SeqsUpTo(_, _)
SeqsUpTo(S, n) ==
    IF n = 0 THEN {<<>>}
    ELSE LET shorter == SeqsUpTo(S, n - 1)
         IN  shorter \cup {Append(s, x) : s \in {t \in shorter : Len(t) = n - 1}, x \in S}

\* A freshly loaded table: RangeIndex 0..n-1, tag = the row's load position.
FreshTable(cells) ==
    [i \in 1..Len(cells) |-> Row(i - 1, cells[i][1], cells[i][2], <<i - 1>>)]

\* Boolean-mask selection: the rows of t whose mask entry is TRUE, in order.
RECURSIVE SelectRows(_, _)
SelectRows(t, mask) ==
    IF t = <<>> THEN <<>>
    ELSE LET rest == SelectRows(Tail(t), Tail(mask))
         IN  IF Head(mask) THEN <<Head(t)>> \o rest ELSE rest

RECURSIVE Insert(_, _)
Insert(x, s) ==
    IF s = <<>> THEN <<x>>
    ELSE IF x <= Head(s) THEN <<x>> \o s
    ELSE <<Head(s)>> \o Insert(x, Tail(s))

\* The non-missing values of column c of t, ascending.
RECURSIVE SortedValues(_, _)
SortedValues(t, c) ==
    IF t = <<>> THEN <<>>
    ELSE LET rest == SortedValues(Tail(t), c)
         IN  IF Head(t)[c] = Missing THEN rest ELSE Insert(Head(t)[c][1], rest)

(***************************************************************************)
(* Series.quantile(num/4), linear interpolation, NaN skipped.  The result  *)
(* is Missing for an empty series and otherwise <<4 * quantile>>.          *)
(***************************************************************************)
quantile(t, c, num) ==
    LET s == SortedValues(t, c)
        pos == num * (Len(s) - 1)
        i == pos \div 4
        r == pos % 4
    IN  IF s = <<>> THEN Missing
        ELSE IF r = 0 THEN <<4 * s[i + 1]>>
        ELSE <<4 * s[i + 1] + r * (s[i + 2] - s[i + 1])>>

\* Q1 - k*IQR and Q3 + k*IQR of column c of t, scaled by 4 * k[2].
lower_bound(t, c, k) ==
    LET Q1 == quantile(t, c, 1)
        Q3 == quantile(t, c, 3)
    IN  IF Q1 = Missing THEN Missing
        ELSE <<k[2] * Q1[1] - k[1] * (Q3[1] - Q1[1])>>

upper_bound(t, c, k) ==
    LET Q1 == quantile(t, c, 1)
        Q3 == quantile(t, c, 3)
    IN  IF Q1 = Missing THEN Missing
        ELSE <<k[2] * Q3[1] + k[1] * (Q3[1] - Q1[1])>>

\* A filter whose upper bound is exclusive.
InBoundsExclusive(cell, lo, hi, k) ==
    /\ cell # Missing
    /\ lo # Missing
    /\ hi # Missing
    /\ 4 * k[2] * cell[1] >= lo[1]
    /\ 4 * k[2] * cell[1] < hi[1]

\* column >= lower and column <= upper; a comparison with NaN is false.
InBounds(cell, lo, hi, k) ==
    /\ cell # Missing
    /\ lo # Missing
    /\ hi # Missing
    /\ 4 * k[2] * cell[1] >= lo[1]
    /\ 4 * k[2] * cell[1] <= hi[1]

\* The rows of t whose column c lies within the bounds computed from bt.
FilterRows(t, bt, c, k) ==
    LET lo == lower_bound(bt, c, k)
        hi == upper_bound(bt, c, k)
    IN  SelectRows(t, [i \in 1..Len(t) |-> InBounds(t[i][c], lo, hi, k)])

(***************************************************************************)
(* Outcomes of a call.                                                     *)
(***************************************************************************)
\* kind says what came back, val holds the value returned and err names
\* the exception of a call that raised.
NoneValue == [kind |-> "None", val |-> <<>>, err |-> "none"]
Returned(kind, v) == [kind |-> kind, val |-> v, err |-> "none"]
Raised(err) == [kind |-> "raised", val |-> <<>>, err |-> err]

\* What a call leaves behind: the caller's table and the call's outcome.
Outcome(t, r) == [data |-> t, ret |-> r]

(***************************************************************************)
(* drop_outliers(data, column, k, inplace)                                 *)
(***************************************************************************)
drop_outliers(t, column, k, inplace) ==
    IF column \notin Columns THEN Outcome(t, Raised("KeyError"))
    ELSE IF column \notin NumericColumns THEN Outcome(t, Raised("TypeError"))
    ELSE LET kept == FilterRows(t, t, column, k)
         IN  IF inplace THEN Outcome(kept, NoneValue)
             ELSE Outcome(t, Returned("table", kept))

(***************************************************************************)
(* drop_outliers_grouped(data, column, group_col, k, inplace)              *)
(***************************************************************************)
\* The keys data.groupby(group_col) iterates over: missing keys are dropped.
GroupKeys(t, group_col) ==
    {t[i][group_col][1] : i \in {j \in 1..Len(t) : t[j][group_col] # Missing}}

\* The rows of one group, in table order.
GroupOf(t, group_col, key) ==
    SelectRows(t, [i \in 1..Len(t) |-> t[i][group_col] = <<key>>])

RECURSIVE SortedKeys(_)
SortedKeys(S) ==
    IF S = {} THEN <<>>
    ELSE LET m == CHOOSE x \in S : \A y \in S : x <= y
         IN  <<m>> \o SortedKeys(S \ {m})

\* The list `cleaned`: one filtered group per key, keys ascending.
RECURSIVE CleanedGroups(_, _, _, _, _)
CleanedGroups(t, column, group_col, k, keys) ==
    IF keys = <<>> THEN <<>>
    ELSE LET group == GroupOf(t, group_col, Head(keys))
         IN  FilterRows(group, group, column, k)
                \o CleanedGroups(t, column, group_col, k, Tail(keys))

\* reset_index(drop=True): labels 0..n-1 in row order.
reset_index(t) == [i \in 1..Len(t) |-> [t[i] EXCEPT !.idx = i - 1]]

\* data.loc[:] = result: every row of data takes the row of result that has
\* its label, and NaN in every column when result has no such label; the
\* rows and labels of data stay.
LocAssign(t, result) ==
    [i \in 1..Len(t) |->
        IF \E j \in 1..Len(result) : result[j].idx = t[i].idx
        THEN result[CHOOSE j \in 1..Len(result) : result[j].idx = t[i].idx]
        ELSE Row(t[i].idx, Missing, Missing, Missing)]

drop_outliers_grouped(t, column, group_col, k, inplace) ==
    IF group_col \notin Columns THEN Outcome(t, Raised("KeyError"))
    ELSE LET keys == SortedKeys(GroupKeys(t, group_col))
         IN  IF keys # <<>> /\ column \notin Columns
                THEN Outcome(t, Raised("KeyError"))
             ELSE IF keys # <<>> /\ column \notin NumericColumns
                THEN Outcome(t, Raised("TypeError"))
             ELSE IF keys = <<>> THEN Outcome(t, Raised("ValueError"))
             ELSE LET result ==
                        reset_index(CleanedGroups(t, column, group_col, k, keys))
                  IN  IF inplace THEN Outcome(LocAssign(t, result), NoneValue)
                      ELSE Outcome(t, Returned("table", result))

(***************************************************************************)
(* get_eta_correlation(groups, values)                                     *)
(***************************************************************************)
\* DataFrame({"groups", "values"}).dropna(): the rows where both are present.
dropna(groups, values) ==
    SelectRows([i \in 1..Len(values) |-> [groups |-> groups[i], values |-> values[i]]],
               [i \in 1..Len(values) |-> groups[i] # Missing /\ values[i] # Missing])

RECURSIVE SumOver(_, _)
SumOver(f, S) ==
    IF S = {} THEN 0
    ELSE LET x == CHOOSE y \in S : TRUE
         IN  f[x] + SumOver(f, S \ {x})

RECURSIVE ProductOver(_, _)
ProductOver(f, S) ==
    IF S = {} THEN 1
    ELSE LET x == CHOOSE y \in S : TRUE
         IN  f[x] * ProductOver(f, S \ {x})

\* The two sums of squares of the loop, both scaled by (N * P)^2 where N is
\* the number of rows and P the product of the group sizes: with S the sum
\* of all values and S_g, n_g the sum and size of group g,
\*   n_g * (mean_g - y_mean)^2 = (S_g*N - S*n_g)^2 / (n_g * N^2)
\*   (v - mean_g)^2            = (v*n_g - S_g)^2 / n_g^2
SumsOfSquares(d) ==
    LET rows == 1..Len(d)
        keys == {d[i].groups[1] : i \in rows}
        members == [g \in keys |-> {i \in rows : d[i].groups[1] = g}]
        v == [i \in rows |-> d[i].values[1]]
        N == Len(d)
        S == SumOver(v, rows)
        n == [g \in keys |-> Cardinality(members[g])]
        Sg == [g \in keys |-> SumOver(v, members[g])]
        P == ProductOver(n, keys)
        between == [g \in keys |->
                      (Sg[g] * N - S * n[g]) * (Sg[g] * N - S * n[g]) * P * (P \div n[g])]
        within == [g \in keys |->
                      SumOver([i \in members[g] |->
                                  (v[i] * n[g] - Sg[g]) * (v[i] * n[g] - Sg[g])],
                              members[g])
                        * N * N * (P \div n[g]) * (P \div n[g])]
    IN  [ss_between |-> SumOver(between, keys), ss_within |-> SumOver(within, keys)]

\* The ratio without the guard on its denominator.
unguarded_eta_correlation(groups, values) ==
    LET ss == SumsOfSquares(dropna(groups, values))
    IN  <<ss.ss_between, ss.ss_between + ss.ss_within>>

\* The float returned, as the fraction <<num, den>> under the square root:
\* eta = sqrt(num / den).  The else branch returns 0, the fraction <<0, 1>>.
get_eta_correlation(groups, values) ==
    LET ss == SumsOfSquares(dropna(groups, values))
    IN  IF ss.ss_between + ss.ss_within > 0
        THEN <<ss.ss_between, ss.ss_between + ss.ss_within>>
        ELSE <<0, 1>>

\* Column c of t as a series.
Series(t, c) == [i \in 1..Len(t) |-> t[i][c]]

\* The series with shift added to every value present.
Shifted(series, shift) ==
    [i \in 1..Len(series) |->
        IF series[i] = Missing THEN Missing ELSE <<series[i][1] + shift>>]

(***************************************************************************)
(* test_mannwhitney and test_kruskal                                       *)
(***************************************************************************)
\* p-values and coefficients are integers in units of 0.00001; NaN is
\* Missing.  0.05 is the level of the conclusions and the default alpha.
Significance == 5000
DefaultAlpha == 5000

\* round(p, 4) and the format {p:.4f}: to the nearest 0.0001, a tie to the
\* even neighbour.  The result is in units of 0.0001.
Round4(p) ==
    LET q == p \div 10
        r == p % 10
    IN  IF r < 5 THEN q
        ELSE IF r > 5 THEN q + 1
        ELSE IF q % 2 = 0 THEN q ELSE q + 1

RoundCell(c) == IF c = Missing THEN Missing ELSE <<Round4(c[1])>>

\* df.groupby(factor)[target].apply(list): one list per key, keys ascending.
RECURSIVE GroupLists(_, _, _, _)
GroupLists(t, target, factor, keys) ==
    IF keys = <<>> THEN <<>>
    ELSE <<Series(GroupOf(t, factor, Head(keys)), target)>>
            \o GroupLists(t, target, factor, Tail(keys))

HasNaN(samples) ==
    \E i \in 1..Len(samples) : \E j \in 1..Len(samples[i]) : samples[i][j] = Missing

\* The message built from p: p >= 0.05 is false for NaN.
Message(factor, p) ==
    [factor |-> factor,
     p_value |-> RoundCell(p),
     significant |-> ~(p # Missing /\ p[1] >= Significance)]

\* A call that takes the first two groups as x and y whatever follows them.
mannwhitneyu_first_two(groups, alternative, p) ==
    IF Len(groups) < 2 THEN Raised("TypeError")
    ELSE IF alternative \notin {"two-sided", "less", "greater"} THEN Raised("ValueError")
    ELSE IF HasNaN(SubSeq(groups, 1, 2)) THEN Returned("p", Missing)
    ELSE Returned("p", <<p>>)

\* mannwhitneyu(*groups, alternative=alternative).  The positional
\* parameters are x, y, use_continuity, alternative, axis, method: fewer
\* than two groups leave x or y unbound, a third group is bound to
\* use_continuity, which must be True or False, and a fourth to alternative,
\* which the keyword binds too.  With two groups the test runs and returns
\* the p-value p (NaN when a group holds NaN).
mannwhitneyu(groups, alternative, p) ==
    IF Len(groups) # 2 THEN Raised("TypeError")
    ELSE IF alternative \notin {"two-sided", "less", "greater"} THEN Raised("ValueError")
    ELSE IF HasNaN(groups) THEN Returned("p", Missing)
    ELSE Returned("p", <<p>>)

\* kruskal(*groups): at least two groups are needed.
kruskal(groups, p) ==
    IF Len(groups) < 2 THEN Raised("ValueError")
    ELSE IF HasNaN(groups) THEN Returned("p", Missing)
    ELSE Returned("p", <<p>>)

\* Outcome of a test: what is returned or raised, and the lines printed.
Printed(r, lines) == [ret |-> r, out |-> lines]

test_mannwhitney(t, target, factor, alternative, p) ==
    IF factor \notin Columns \/ target \notin Columns
    THEN Printed(Raised("KeyError"), <<>>)
    ELSE LET groups == GroupLists(t, target, factor, SortedKeys(GroupKeys(t, factor)))
             res == mannwhitneyu(groups, alternative, p)
         IN  IF res.kind = "raised" THEN Printed(res, <<>>)
             ELSE Printed(NoneValue, <<Message(factor, res.val)>>)

test_kruskal(t, target, factor, p) ==
    IF factor \notin Columns \/ target \notin Columns
    THEN Printed(Raised("KeyError"), <<>>)
    ELSE LET groups == GroupLists(t, target, factor, SortedKeys(GroupKeys(t, factor)))
             res == kruskal(groups, p)
         IN  IF res.kind = "raised" THEN Printed(res, <<>>)
             ELSE Printed(NoneValue, <<Message(factor, res.val)>>)

(***************************************************************************)
(* check_normality and get_quant_p_values.  They read the table through    *)
(* scipy only, so the table they are given is kept as what scipy sees:     *)
(* the number of rows, and per column whether it holds a NaN and the       *)
(* p-value sw that Shapiro-Wilk gives for its values.                      *)
(***************************************************************************)
\* A frame: its number of rows len, its column names in table order, and
\* per column [nan, sw].
Frame(n, names, cols) == [len |-> n, names |-> names, cols |-> cols]

HasColumn(df, col) == \E i \in 1..Len(df.names) : df.names[i] = col

\* shapiro(x) for column col, after dropna() when dropped: fewer than three
\* values raise, a NaN among the values gives a NaN p-value.
shapiro(df, col, dropped) ==
    LET nan == df.cols[col].nan
        n == IF nan /\ dropped THEN df.len - 1 ELSE df.len
    IN  IF n < 3 THEN Raised("ValueError")
        ELSE IF nan /\ ~dropped THEN Returned("p", Missing)
        ELSE Returned("p", <<df.cols[col].sw>>)

\* _is_normal(df[col]): TRUE, FALSE, or the error of df[col] or shapiro.
is_normal(df, col, alpha) ==
    IF ~HasColumn(df, col) THEN Raised("KeyError")
    ELSE LET res == shapiro(df, col, FALSE)
         IN  IF res.kind = "raised" THEN res
             ELSE Returned("bool", res.val # Missing /\ res.val[1] >= alpha)

\* An optional list of column names: None, or the list given.
NoneList == [none |-> TRUE, names |-> <<>>]
ListOf(names) == [none |-> FALSE, names |-> names]

\* The sequence s without its entries equal to x.
RECURSIVE Without(_, _)
Without(s, x) ==
    IF s = <<>> THEN <<>>
    ELSE IF Head(s) = x THEN Without(Tail(s), x)
    ELSE <<Head(s)>> \o Without(Tail(s), x)

\* A label that takes p = alpha for asymmetric.
distribution_strict(p, alpha) ==
    IF p # Missing /\ p[1] > alpha THEN "normal" ELSE "asymmetric"

\* "Нормальное" if p >= alpha else "Асимметричное".
distribution(p, alpha) ==
    IF p # Missing /\ p[1] >= alpha THEN "normal" ELSE "asymmetric"

NormalityRow(col, p, alpha) ==
    [column |-> col, p_value |-> RoundCell(p), distribution |-> distribution(p, alpha)]

\* A loop that hands back the rows built so far when a column fails.
RECURSIVE NormalityLoopPartial(_, _, _, _, _)
NormalityLoopPartial(df, columns, alpha, i, rows) ==
    IF i > Len(columns) THEN Returned("rows", rows)
    ELSE IF ~HasColumn(df, columns[i]) THEN Returned("rows", rows)
    ELSE LET res == shapiro(df, columns[i], TRUE)
         IN  IF res.kind = "raised" THEN Returned("rows", rows)
             ELSE NormalityLoopPartial(df, columns, alpha, i + 1,
                    Append(rows, NormalityRow(columns[i], res.val, alpha)))

\* The loop of check_normality from column i on, rows being the list so far.
RECURSIVE NormalityLoop(_, _, _, _, _)
NormalityLoop(df, columns, alpha, i, rows) ==
    IF i > Len(columns) THEN Returned("rows", rows)
    ELSE IF ~HasColumn(df, columns[i]) THEN Raised("KeyError")
    ELSE LET res == shapiro(df, columns[i], TRUE)
         IN  IF res.kind = "raised" THEN res
             ELSE NormalityLoop(df, columns, alpha, i + 1,
                    Append(rows, NormalityRow(columns[i], res.val, alpha)))

check_normality(df, columns, alpha) ==
    NormalityLoop(df, IF columns.none THEN df.names ELSE columns.names, alpha, 1, <<>>)

\* pearsonr / spearmanr on two columns of the table: <<r, p>>, NaN when a
\* column holds NaN, else the pair rp the library computes.
correlation(df, factor, target, rp) ==
    IF ~HasColumn(df, factor) \/ ~HasColumn(df, target) THEN Raised("KeyError")
    ELSE IF df.cols[factor].nan \/ df.cols[target].nan
        THEN Returned("rp", <<Missing, Missing>>)
    ELSE Returned("rp", <<(<<rp[1]>>), (<<rp[2]>>)>>)

\* A conclusion drawn from the p-value as reported, rounded to 4 decimals.
conclusion_of_rounded(p) == p # Missing /\ 10 * Round4(p[1]) <= Significance

\* p <= 0.05: TRUE stands for "Есть статистически значимая разница.", FALSE
\* for "Нет статистически значимой разницы."; a comparison with NaN is false.
conclusion(p) == p # Missing /\ p[1] <= Significance

\* A test that is satisfied with one normal series.
EitherNormal(df, factor, target) ==
    LET f == is_normal(df, factor, DefaultAlpha)
    IN  IF f.kind = "raised" THEN f
        ELSE IF f.val THEN f
        ELSE is_normal(df, target, DefaultAlpha)

\* `_is_normal(df[factor]) and _is_normal(df[target])`: the second operand
\* is evaluated only when the first is True.
BothNormal(df, factor, target) ==
    LET f == is_normal(df, factor, DefaultAlpha)
    IN  IF f.kind = "raised" THEN f
        ELSE IF ~f.val THEN f
        ELSE is_normal(df, target, DefaultAlpha)

\* The loop of get_quant_p_values from factor i on; rps[i] is what the
\* correlation test of factor i computes.
RECURSIVE QuantLoop(_, _, _, _, _, _)
QuantLoop(df, target, factors, rps, i, rows) ==
    IF i > Len(factors) THEN Returned("rows", rows)
    ELSE LET both == BothNormal(df, factors[i], target)
             res == correlation(df, factors[i], target, rps[i])
         IN  IF both.kind = "raised" THEN both
             ELSE IF res.kind = "raised" THEN res
             ELSE QuantLoop(df, target, factors, rps, i + 1,
                    Append(rows,
                       [column |-> factors[i],
                        p_value |-> RoundCell(res.val[2]),
                        correlation |-> RoundCell(res.val[1]),
                        method |-> IF both.val THEN "Pearson" ELSE "Spearman",
                        conclusion |-> conclusion(res.val[2])]))

\* The factors the loop runs over: the list given, or every column but target.
Factors(df, target, factors) ==
    IF factors.none THEN Without(df.names, target) ELSE factors.names

get_quant_p_values(df, target, factors, rps) ==
    IF factors.none /\ ~HasColumn(df, target) THEN Raised("KeyError")
    ELSE QuantLoop(df, target, Factors(df, target, factors), rps, 1, <<>>)

(***************************************************************************)
(* The caller.  It loads a table (a table of rows for the outlier filters, *)
(* the eta ratio and the group tests; a frame for the normality and the    *)
(* correlation table) and calls the helpers on it.  A helper keeps nothing *)
(* between calls, so its outcome is a function of the table and the        *)
(* arguments; a behaviour goes on while the last call left a table no call *)
(* has started from yet (NewTable), which reaches every table a sequence   *)
(* of calls can produce.  The helpers of a table of rows are called when   *)
(* rows were loaded (RowsLoaded), those of a frame when a frame was.       *)
(***************************************************************************)
NoCall == [fn |-> "none", args |-> <<>>, before |-> <<>>, printed |-> 0]
Call(fn, args) == [fn |-> fn, args |-> args, before |-> data, printed |-> Len(out)]

NewTable == call.fn = "none" \/ data # call.before

InitTables == {FreshTable(cells) : cells \in SeqsUpTo(Cell(Vals) \X Cell(Grps), MaxRows)}

EmptyFrame == Frame(0, <<>>, <<>>)

\* The p-values Shapiro-Wilk may give a column, around the levels used.
SwPs == {996, 4996, 5000, 5004}
FrameNames == <<"a", "b", "t">>
FrameLens == {2, 3, 4}
InitFrames ==
    {Frame(n, FrameNames, cols) :
        n \in FrameLens,
        cols \in [{FrameNames[i] : i \in 1..Len(FrameNames)} -> [nan : BOOLEAN, sw : SwPs]]}

InitTable ==
    /\ data \in InitTables
    /\ stat = EmptyFrame
    /\ call = NoCall
    /\ ret = Returned("init", <<>>)
    /\ out = <<>>

InitStats ==
    /\ data = <<>>
    /\ stat \in InitFrames
    /\ call = NoCall
    /\ ret = Returned("init", <<>>)
    /\ out = <<>>

Init == InitTable \/ InitStats

RowsLoaded == stat = EmptyFrame
FrameLoaded == stat # EmptyFrame

\* A target column that exists and is numeric goes with every k; the
\* failing targets (a label column, an absent column) with the default k.
FilterArgs ==
    ({"val"} \X Ks) \cup ({"grp", "absent"} \X {DefaultK})

GroupedArgs ==
    {<<a[1], "grp", a[2]>> : a \in FilterArgs} \cup {<<"val", "absent", DefaultK>>}

DropOutliers ==
    /\ RowsLoaded
    /\ NewTable
    /\ \E a \in FilterArgs, inplace \in BOOLEAN :
        LET o == drop_outliers(data, a[1], a[2], inplace)
        IN  /\ call' = Call("drop_outliers",
                            [column |-> a[1], k |-> a[2], inplace |-> inplace])
            /\ data' = o.data
            /\ ret' = o.ret
    /\ UNCHANGED <<stat, out>>

DropOutliersGrouped ==
    /\ RowsLoaded
    /\ NewTable
    /\ \E a \in GroupedArgs, inplace \in BOOLEAN :
        LET o == drop_outliers_grouped(data, a[1], a[2], a[3], inplace)
        IN  /\ call' = Call("drop_outliers_grouped",
                            [column |-> a[1], group_col |-> a[2], k |-> a[3],
                             inplace |-> inplace])
            /\ data' = o.data
            /\ ret' = o.ret
    /\ UNCHANGED <<stat, out>>

\* The caller shifts the values by a constant before the call.
EtaShifts == {0, 7, -3}

EtaCorrelation ==
    /\ RowsLoaded
    /\ NewTable
    /\ \E shift \in EtaShifts :
        /\ call' = Call("get_eta_correlation", [shift |-> shift])
        /\ ret' = Returned("float",
                    get_eta_correlation(Series(data, "grp"),
                                        Shifted(Series(data, "val"), shift)))
    /\ UNCHANGED <<data, stat, out>>

\* The p-values a group test may compute.
TestPs == {4996, 5000, 5004}

\* <<target, factor>>: the factor is the label column or the column tag,
\* whose values all differ; or one of the two columns is absent.
TestArgs ==
    ({"val"} \X {"grp", "tag"}) \cup {<<"absent", "grp">>, <<"val", "absent">>}

\* <<target, factor, alternative>>; an alternative scipy does not know goes
\* with the label column.
MannWhitneyArgs ==
    {<<a[1], a[2], "two-sided">> : a \in TestArgs} \cup {<<"val", "grp", "bogus">>}

TestMannWhitney ==
    /\ RowsLoaded
    /\ NewTable
    /\ \E a \in MannWhitneyArgs, p \in TestPs :
        LET o == test_mannwhitney(data, a[1], a[2], a[3], p)
        IN  /\ call' = Call("test_mannwhitney",
                            [target |-> a[1], factor |-> a[2],
                             alternative |-> a[3], p |-> p])
            /\ ret' = o.ret
            /\ out' = out \o o.out
    /\ UNCHANGED <<data, stat>>

TestKruskal ==
    /\ RowsLoaded
    /\ NewTable
    /\ \E a \in TestArgs, p \in TestPs :
        LET o == test_kruskal(data, a[1], a[2], p)
        IN  /\ call' = Call("test_kruskal",
                            [target |-> a[1], factor |-> a[2], p |-> p])
            /\ ret' = o.ret
            /\ out' = out \o o.out
    /\ UNCHANGED <<data, stat>>

\* The column lists a caller passes: None, or up to MaxCols names.
ColumnLists ==
    {NoneList} \cup {ListOf(names) : names \in SeqsUpTo({"a", "b", "absent"}, MaxCols)}

Alphas == {1000, DefaultAlpha}

CheckNormality ==
    /\ FrameLoaded
    /\ NewTable
    /\ \E columns \in ColumnLists, alpha \in Alphas :
        /\ call' = Call("check_normality", [columns |-> columns, alpha |-> alpha])
        /\ ret' = check_normality(stat, columns, alpha)
    /\ UNCHANGED <<data, stat, out>>

\* What pearsonr / spearmanr may compute for a factor: <<r, p>>.
CorrResults == {<<99995, 4996>>, <<-50000, 5000>>, <<12344, 5004>>}

GetQuantPValues ==
    /\ FrameLoaded
    /\ NewTable
    /\ \E target \in {"t", "absent"}, factors \in ColumnLists :
        \E rps \in [1..Len(Factors(stat, target, factors)) -> CorrResults] :
            /\ call' = Call("get_quant_p_values",
                            [target |-> target, factors |-> factors, rps |-> rps])
            /\ ret' = get_quant_p_values(stat, target, factors, rps)
    /\ UNCHANGED <<data, stat, out>>

NextFilter == DropOutliers \/ DropOutliersGrouped
NextEta == EtaCorrelation
NextTests == TestMannWhitney \/ TestKruskal
NextStats == CheckNormality \/ GetQuantPValues
Next ==
    \/ DropOutliers
    \/ DropOutliersGrouped
    \/ EtaCorrelation
    \/ TestMannWhitney
    \/ TestKruskal
    \/ CheckNormality
    \/ GetQuantPValues

SpecFilter == InitTable /\ [][NextFilter]_vars
SpecEta == InitTable /\ [][NextEta]_vars
SpecTests == InitTable /\ [][NextTests]_vars
SpecStats == InitStats /\ [][NextStats]_vars
Spec == Init /\ [][Next]_vars

(***************************************************************************)
(* Properties of the outlier filters (checked under SpecFilter).           *)
(***************************************************************************)
\* A row without its index label: its values in the columns.
RowValues(r) == <<r.val, r.grp, r.tag>>
TableValues(t) == [i \in 1..Len(t) |-> RowValues(t[i])]

\* The table a filter call produced: the caller's table in mutate mode,
\* the table returned in copy mode.
Produced == IF call.args.inplace THEN data ELSE ret.val

\* Q1 - k*IQR <= v <= Q3 + k*IQR, the quartiles taken from column c of t.
WithinBounds(cell, t, c, k) ==
    LET lo == lower_bound(t, c, k)
        hi == upper_bound(t, c, k)
    IN  /\ cell # Missing
        /\ lo # Missing
        /\ lo[1] <= 4 * k[2] * cell[1]
        /\ 4 * k[2] * cell[1] <= hi[1]

\* The position in t of the row labelled l.
PositionOf(t, l) == CHOOSE i \in 1..Len(t) : t[i].idx = l

UngroupedDone ==
    /\ call.fn = "drop_outliers"
    /\ ret.kind # "raised"

\* C1: ungrouped drop_outliers keeps exactly the rows whose target value lies
\* within [Q1 - k*IQR, Q3 + k*IQR] of the original column: the row count does
\* not grow, every row kept is within the bounds, every row within the bounds
\* is kept, a row with a missing target value is removed, and the rows kept
\* are rows of the input, unchanged in every column and in their order.
C1_UngroupedKeepsExactlyInBounds ==
    UngroupedDone =>
        LET T == call.before
            c == call.args.column
            k == call.args.k
            R == Produced
        IN  /\ Len(R) <= Len(T)
            /\ \A j \in 1..Len(R) : WithinBounds(R[j][c], T, c, k)
            /\ \A i \in 1..Len(T) :
                  WithinBounds(T[i][c], T, c, k) => \E j \in 1..Len(R) : R[j] = T[i]
            /\ \A i \in 1..Len(T) :
                  T[i][c] = Missing => \A j \in 1..Len(R) : R[j].idx # T[i].idx
            /\ \A j \in 1..Len(R) : \E i \in 1..Len(T) : T[i] = R[j]
            /\ \A j1, j2 \in 1..Len(R) :
                  j1 < j2 => PositionOf(T, R[j1].idx) < PositionOf(T, R[j2].idx)

\* A mutate-mode call that removed a row whose value is out of the bounds
\* and kept a row.
C1_Witness ==
    /\ UngroupedDone
    /\ call.args.inplace
    /\ Len(data) > 0
    /\ \E i \in 1..Len(call.before) :
          /\ call.before[i].val # Missing
          /\ \A j \in 1..Len(data) : data[j].idx # call.before[i].idx

\* What copy mode returns for the input and arguments of the last call.
CopyModeResult ==
    IF call.fn = "drop_outliers"
    THEN drop_outliers(call.before, call.args.column, call.args.k, FALSE).ret.val
    ELSE drop_outliers_grouped(call.before, call.args.column, call.args.group_col,
                               call.args.k, FALSE).ret.val

\* C2: for both variants, in mutate mode the call returns None and the
\* caller's table then holds exactly the rows copy mode would return (same
\* rows, values and row count); in copy mode the filtered table is returned
\* and the caller's table is unchanged.
C2_ModeSelectsOneEffect ==
    (call.fn \in {"drop_outliers", "drop_outliers_grouped"} /\ ret.kind # "raised") =>
        IF call.args.inplace
        THEN ret = NoneValue /\ TableValues(data) = TableValues(CopyModeResult)
        ELSE ret.kind = "table" /\ data = call.before

GroupedCopyDone ==
    /\ call.fn = "drop_outliers_grouped"
    /\ call.args.column = "val"
    /\ call.args.group_col = "grp"
    /\ ~call.args.inplace

\* C3: when the grouping column holds one and the same value in every row,
\* grouped removal yields the same sequence of rows as ungrouped removal on
\* the same table, column and k.
C3_SingleGroupEqualsUngrouped ==
    (/\ GroupedCopyDone
     /\ \A i, j \in 1..Len(call.before) : call.before[i].grp = call.before[j].grp) =>
        /\ ret.kind = "table"
        /\ TableValues(ret.val)
             = TableValues(drop_outliers(call.before, "val", call.args.k, FALSE).ret.val)

\* The rows of t that hold the grouping value of row i (missing or not).
OwnGroup(t, i) == SelectRows(t, [j \in 1..Len(t) |-> t[j].grp = t[i].grp])

\* C4: grouped removal partitions all rows by the grouping column: a row of
\* the input is in the output, exactly once, if and only if its target value
\* is within the bounds computed from the rows of its own group, whatever its
\* grouping value; the output rows are labelled 0..n-1.
C4_EveryRowFilteredInOwnGroup ==
    (GroupedCopyDone /\ call.before # <<>>) =>
        LET T == call.before
            k == call.args.k
            R == IF ret.kind = "table" THEN ret.val ELSE <<>>
            kept == {i \in 1..Len(T) : WithinBounds(T[i].val, OwnGroup(T, i), "val", k)}
        IN  /\ \A i \in 1..Len(T) :
                  Cardinality({j \in 1..Len(R) : RowValues(R[j]) = RowValues(T[i])})
                    = Cardinality({i2 \in kept : RowValues(T[i2]) = RowValues(T[i])})
            /\ Len(R) = Cardinality(kept)
            /\ \A j \in 1..Len(R) : R[j].idx = j - 1

(***************************************************************************)
(* Properties of the group tests (checked under SpecTests).                *)
(***************************************************************************)
\* The number of distinct values, missing ones aside, of column c of t.
DistinctValues(t, c) ==
    Cardinality({t[i][c] : i \in 1..Len(t)} \ {Missing})

PassesNormality(df, col) == ~df.cols[col].nan /\ df.cols[col].sw >= DefaultAlpha

QuantReturned ==
    /\ call.fn = "get_quant_p_values"
    /\ ret.kind = "rows"

\* C6: get_quant_p_values emits one row per factor in the order of the
\* factors, and a row's method is "Pearson" if and only if both the factor
\* and the target pass the normality check, "Spearman" otherwise.
C6_PearsonIffBothNormal ==
    QuantReturned =>
        LET factors == IF call.args.factors.none
                       THEN Without(stat.names, call.args.target)
                       ELSE call.args.factors.names
            rows == ret.val
        IN  /\ Len(rows) = Len(factors)
            /\ \A i \in 1..Len(rows) :
                  /\ rows[i].column = factors[i]
                  /\ rows[i].method \in {"Pearson", "Spearman"}
                  /\ rows[i].method = "Pearson"
                       <=> (PassesNormality(stat, factors[i])
                              /\ PassesNormality(stat, call.args.target))

\* Two rows: a Pearson row, and a Spearman row of a factor that is not
\* normal while the target is.
C6_Witness ==
    /\ QuantReturned
    /\ Len(ret.val) = 2
    /\ ret.val[1].method = "Pearson"
    /\ ret.val[2].method = "Spearman"
    /\ ret.val[1].column # ret.val[2].column

NormalityReturned ==
    /\ call.fn = "check_normality"
    /\ ret.kind = "rows"

\* The columns check_normality examines.
Examined ==
    IF call.args.columns.none THEN stat.names ELSE call.args.columns.names

\* C7: check_normality returns one row per examined column, in the order of
\* the column list, and a row's label is "normal" if and only if the p-value
\* of the column with its missing values dropped is >= alpha.
C7_OneRowPerColumnInOrder ==
    NormalityReturned =>
        /\ Len(ret.val) = Len(Examined)
        /\ \A i \in 1..Len(ret.val) :
              /\ ret.val[i].column = Examined[i]
              /\ ret.val[i].distribution \in {"normal", "asymmetric"}
              /\ ret.val[i].distribution = "normal"
                   <=> stat.cols[Examined[i]].sw >= call.args.alpha

\* Two rows in list order, the first of a column that holds a NaN and whose
\* p-value equals alpha, the second asymmetric.
C7_Witness ==
    /\ NormalityReturned
    /\ ~call.args.columns.none
    /\ Len(ret.val) = 2
    /\ ret.val[1].column = "b"
    /\ ret.val[2].column = "a"
    /\ stat.cols["b"].nan
    /\ stat.cols["b"].sw = call.args.alpha
    /\ ret.val[1].distribution = "normal"
    /\ ret.val[2].distribution = "asymmetric"

\* C10 as claimed: in every row the verdict agrees with the p-value the row
\* reports, rounded to 4 decimals: a row of the correlation table concludes
\* "significant" iff its p_value <= 0.05, a row of the normality table is
\* "normal" iff its p_value >= alpha.
C10_VerdictAgreesWithReported ==
    /\ QuantReturned =>
          \A i \in 1..Len(ret.val) :
              ret.val[i].conclusion
                <=> (ret.val[i].p_value # Missing
                       /\ 10 * ret.val[i].p_value[1] <= Significance)
    /\ NormalityReturned =>
          \A i \in 1..Len(ret.val) :
              ret.val[i].distribution = "normal"
                <=> 10 * ret.val[i].p_value[1] >= call.args.alpha

\* The p-value the correlation test of row i computed, NaN when a column
\* of the pair holds NaN.
ComputedP(i) ==
    IF stat.cols[ret.val[i].column].nan \/ stat.cols[call.args.target].nan
    THEN Missing ELSE <<call.args.rps[i][2]>>

Distance(x, y) == IF x >= y THEN x - y ELSE y - x

\* C10 as amended: the verdict of a row is that of the p-value before
\* rounding (significant iff p <= 0.05, normal iff p >= alpha), the p_value
\* reported is that p-value rounded to 4 decimals, and the verdict agrees
\* with the reported p_value whenever that differs from the threshold by
\* more than 0.00005.
C10_VerdictOfUnroundedP ==
    /\ QuantReturned =>
          \A i \in 1..Len(ret.val) :
              LET p == ComputedP(i)
                  reported == ret.val[i].p_value
              IN  /\ ret.val[i].conclusion <=> (p # Missing /\ p[1] <= Significance)
                  /\ reported = (IF p = Missing THEN Missing ELSE <<Round4(p[1])>>)
                  /\ (reported # Missing /\ Distance(10 * reported[1], Significance) > 5)
                        => (ret.val[i].conclusion <=> 10 * reported[1] <= Significance)
    /\ NormalityReturned =>
          \A i \in 1..Len(ret.val) :
              LET p == stat.cols[Examined[i]].sw
                  reported == ret.val[i].p_value
              IN  /\ ret.val[i].distribution = "normal" <=> p >= call.args.alpha
                  /\ reported = <<Round4(p)>>
                  /\ Distance(10 * reported[1], call.args.alpha) > 5
                        => (ret.val[i].distribution = "normal"
                              <=> 10 * reported[1] >= call.args.alpha)

\* A row of the correlation table whose p-value 0.05004 is reported as 0.05
\* with the conclusion "not significant".
C10_Witness ==
    /\ QuantReturned
    /\ \E i \in 1..Len(ret.val) :
          /\ ComputedP(i) = <<5004>>
          /\ ret.val[i].p_value = <<500>>
          /\ ~ret.val[i].conclusion

(***************************************************************************)
(* Properties of the eta correlation ratio (checked under SpecEta).        *)
(***************************************************************************)
EtaDone == call.fn = "get_eta_correlation"

\* The rows of the input where the group and the value are both present.
Complete == {i \in 1..Len(call.before) :
                call.before[i].grp # Missing /\ call.before[i].val # Missing}

\* The value of row i as passed to the call.
Passed(i) == call.before[i].val[1] + call.args.shift

SameGroup(i) == {j \in Complete : call.before[j].grp = call.before[i].grp}

SumOfPassed(S) == SumOver([i \in S |-> Passed(i)], S)

\* The mean of the group of row i equals the mean of all rows.
MeanIsGlobal(i) ==
    SumOfPassed(SameGroup(i)) * Cardinality(Complete)
        = SumOfPassed(Complete) * Cardinality(SameGroup(i))

\* Every value of the group of row i is the same.
GroupConstant(i) == \A j \in SameGroup(i) : Passed(j) = Passed(i)

\* The total sum of squares, sum of (v - y_mean)^2, times N^2.
TotalSS ==
    SumOver([i \in Complete |->
                (Passed(i) * Cardinality(Complete) - SumOfPassed(Complete))
                  * (Passed(i) * Cardinality(Complete) - SumOfPassed(Complete))],
            Complete)

\* The product of the sizes of the groups.
SizeProduct ==
    LET labels == {call.before[i].grp : i \in Complete}
        size == [g \in labels |-> Cardinality({i \in Complete : call.before[i].grp = g})]
    IN  ProductOver(size, labels)

\* The between-group sum of squares taken row by row, sum of
\* (mean of the row's group - y_mean)^2, times (N * SizeProduct)^2.
BetweenSS ==
    LET N == Cardinality(Complete)
        P == SizeProduct
        dev == [i \in Complete |->
                  SumOfPassed(SameGroup(i)) * (P \div Cardinality(SameGroup(i))) * N
                    - SumOfPassed(Complete) * P]
    IN  SumOver([i \in Complete |-> dev[i] * dev[i]], Complete)

RowsOwed ==
    IF call.fn = "check_normality" THEN Len(Examined)
    ELSE Len(Factors(stat, call.args.target, call.args.factors))

\* C9: a failure propagates with no partial output: a call that raised left
\* the caller's table as it was and printed nothing, and the table helpers
\* return either a row for every column or, on a failure, no rows at all.
C9_FailureLeavesNoEffect ==
    /\ ret.kind = "raised" => (data = call.before /\ Len(out) = call.printed)
    /\ ret.kind = "rows" => Len(ret.val) = RowsOwed
    /\ call.fn \in {"check_normality", "get_quant_p_values"}
          => ret.kind \in {"rows", "raised"}

\* check_normality raised on its second column, the first being testable.
C9_Witness ==
    /\ call.fn = "check_normality"
    /\ ret.kind = "raised"
    /\ ~call.args.columns.none
    /\ Len(call.args.columns.names) = 2
    /\ call.args.columns.names[1] = "a"
    /\ shapiro(stat, "a", TRUE).kind = "p"

====
